---- MODULE Spec2Model ----
(***************************************************************************)
(* Model of agent_motion_prediction.py: the launcher (main), the           *)
(* distributed training loop (train), the distributed evaluation loop      *)
(* (test) and the masked loss (forward).                                   *)
(*                                                                         *)
(* A process is a pair <<node, gpu>>: main is run once on every node and   *)
(* spawns one process per local gpu.  Collective operations of the         *)
(* framework (process-group rendezvous, barrier, gradient all-reduce) are  *)
(* actions that fire when every rank of the group has arrived.             *)
(***************************************************************************)
EXTENDS Integers, Sequences, FiniteSets, TLC

\* ---------------------------------------------------------------- bounds
MaxNodes == 2       \* largest value of --nodes
MaxGpus == 2        \* largest value of --gpus
MaxEpochs == 2      \* largest train_params.max_num_epochs
MaxCkpt == 2        \* largest train_params.checkpoint_every_n_steps
MaxSamples == 3     \* largest dataset size (agents selected by the mask)
MaxBatch == 2       \* largest batch_size of a data loader
MaxCoord == 1       \* forward: largest coordinate value

Nodes == 1..MaxNodes
GpuIds == 0..(MaxGpus - 1)
Proc == Nodes \X GpuIds

VARIABLES
  flags,        \* command line: [nodes, gpus]; --nr of node n is n - 1
  cfg,          \* agent_motion_config.yaml, the entries the script reads
  nsamples,     \* size of the dataset of the selected mode
  iter_len,     \* batches an iterator over train_dataloader yields before StopIteration
  test_perm,    \* order the test sampler visits the dataset in
  mainpc,       \* per node: "start" | "spawned" (in mp.spawn) | "returned" | "raised"
  world_size,   \* per node: args.world_size (0 before main computed it)
  pc,           \* per process: position in train / test
  fn,           \* per process: the function mp.spawn runs ("train" | "test" | "none")
  rank,         \* per process: rank passed to dist.init_process_group
  model,        \* per process: [src, steps] model state
  optimizer,    \* per process: [src, steps] optimizer state
  epoch, index, \* per process: loop counters
  tr_it,        \* per process: batches drawn from the current iterator
  data,         \* per process: batch (its number in the loader) held by the loop body
  restarts,     \* per process: times the StopIteration handler ran
  nzero, nback, nstep,  \* per process: zero_grad / backward / optimizer.step calls
  saves,        \* per node: log of torch.save calls (checkpoint files)
  future_coords_offsets_pd, timestamps, agent_ids,  \* per process: collected batches
  csv_rows,     \* per process: rows handed to write_pred_csv
  wpos,         \* per process: rows already written through its file handle
  pred_csv,     \* per node: ./pred.csv, [exists, rows]
  fwd_data, fwd_pc, fwd_loss, fwd_outputs, fwd_prev  \* forward, called on its own

inputVars == <<flags, cfg, nsamples, iter_len, test_perm>>
launchVars == <<mainpc, world_size, fn, rank>>
trainVars == <<epoch, tr_it, data, restarts, nzero, nback, nstep, saves, optimizer>>
evalVars == <<future_coords_offsets_pd, timestamps, agent_ids, csv_rows, wpos, pred_csv>>
fwdVars == <<fwd_data, fwd_pc, fwd_loss, fwd_outputs, fwd_prev>>
vars == <<inputVars, launchVars, pc, model, index, trainVars, evalVars, fwdVars>>

\* ---------------------------------------------------------------- helpers
Min(a, b) == IF a < b THEN a ELSE b
CeilDiv(a, b) == (a + b - 1) \div b

RECURSIVE Flatten(_)
\* np.concatenate over a list of batches
Flatten(ss) == IF ss = <<>> THEN <<>> ELSE Head(ss) \o Flatten(Tail(ss))

RECURSIVE SumSeq(_)
SumSeq(s) == IF s = <<>> THEN 0 ELSE Head(s) + SumSeq(Tail(s))

NodeOf(p) == p[1]
GpuOf(p) == p[2]
ProcsOn(n) == {p \in Proc : NodeOf(p) = n /\ pc[p] # "none"}


\* ---------------------------------------------------------------- data loading
\* torch.randperm order when shuffle is set, dataset order otherwise
Identity(n) == [k \in 1..n |-> k - 1]
Perms(n) == {f \in [1..n -> 0..(n - 1)] : \A a, b \in 1..n : f[a] = f[b] => a = b}

\* DistributedSampler.num_samples: samples every rank draws
PerRank(n, w) == CeilDiv(n, w)

\* DistributedSampler.__iter__: the order is padded to w * PerRank by repeating it
\* from its start, and rank r takes every w-th entry starting at r
Shard(order, w, r) ==
  LET n == Len(order)
  IN [j \in 1..PerRank(n, w) |-> order[((r + (j - 1) * w) % n) + 1]]

\* len(DataLoader): batches per pass (drop_last is off)
NumBatches(n, w, bs) == CeilDiv(PerRank(n, w), bs)

\* the k-th batch (k from 0) of a rank's shard
Batch(shard, bs, k) == SubSeq(shard, k * bs + 1, Min((k + 1) * bs, Len(shard)))

\* dataset fields of sample s: an agent (track_id) at a frame (timestamp)
TimestampOf(s) == 100 + (s \div 2)
TrackIdOf(s) == s % 2
\* the positions the network predicts for sample s
ModelOutput(s) == <<"xy", s>>

\* ---------------------------------------------------------------- main
\* args.world_size = args.gpus * args.nodes
WorldSize(f) == f.gpus * f.nodes

\* mp.spawn(fn, nprocs=args.gpus, args=(args,)): process i is called as fn(i, args)
SpawnCount(f) == f.gpus

\* mutant: the rank is offset by the node's --nr
MutSpawnRank(f, i) == f.nr * f.gpus + i

\* rank=gpu in dist.init_process_group: the rank of spawned process i under flags f
SpawnRank(f, i) == i

SpawnRanks(f) == {SpawnRank(f, i) : i \in 0..(SpawnCount(f) - 1)}

\* mutant: the test of load_the_state is inverted
MutSpawnTarget(c) == IF c.load_the_state THEN "train" ELSE "test"

\* the function main hands to mp.spawn
SpawnTarget(c) == IF ~c.load_the_state THEN "train" ELSE "test"

FlagsOf(n) == [nodes |-> flags.nodes, gpus |-> flags.gpus, nr |-> n - 1]

Main(n) ==
  /\ n <= flags.nodes
  /\ mainpc[n] = "start"
  /\ mainpc' = [mainpc EXCEPT ![n] = "spawned"]
  /\ world_size' = [world_size EXCEPT ![n] = WorldSize(FlagsOf(n))]
  /\ pc' = [p \in Proc |->
              IF NodeOf(p) = n /\ GpuOf(p) < SpawnCount(FlagsOf(n)) THEN "init" ELSE pc[p]]
  /\ fn' = [p \in Proc |->
              IF NodeOf(p) = n /\ GpuOf(p) < SpawnCount(FlagsOf(n))
              THEN SpawnTarget(cfg) ELSE fn[p]]
  /\ rank' = [p \in Proc |->
              IF NodeOf(p) = n /\ GpuOf(p) < SpawnCount(FlagsOf(n))
              THEN SpawnRank(FlagsOf(n), GpuOf(p)) ELSE rank[p]]
  /\ UNCHANGED <<inputVars, model, index, trainVars, evalVars, fwdVars>>

\* dist.init_process_group(init_method='tcp://127.0.0.1:12121', world_size, rank):
\* the store is the node's own loopback address, so the processes of one node meet
\* each other only; the call returns once ranks 0..world_size-1 have all joined
GroupComplete(n) ==
  LET waiting == {p \in ProcsOn(n) : pc[p] = "init"}
  IN /\ waiting # {}
     /\ Cardinality(waiting) = world_size[n]
     /\ {rank[p] : p \in waiting} = 0..(world_size[n] - 1)

InitProcessGroup(n) ==
  /\ GroupComplete(n)
  /\ pc' = [p \in Proc |-> IF NodeOf(p) = n /\ pc[p] = "init" THEN "setup" ELSE pc[p]]
  /\ UNCHANGED <<inputVars, launchVars, model, index, trainVars, evalVars, fwdVars>>

\* mp.spawn(fn, nprocs, args) with the default join=True: main waits for its
\* processes; when one of them has raised, the others are terminated and main raises;
\* when all have returned, mp.spawn returns and main ends
Join(n) ==
  /\ mainpc[n] = "spawned"
  /\ IF \E p \in ProcsOn(n) : pc[p] = "raised"
     THEN /\ mainpc' = [mainpc EXCEPT ![n] = "raised"]
          /\ pc' = [p \in Proc |->
                      IF NodeOf(p) = n /\ pc[p] \notin {"none", "done", "raised"}
                      THEN "terminated" ELSE pc[p]]
     ELSE /\ ProcsOn(n) # {}
          /\ \A p \in ProcsOn(n) : pc[p] = "done"
          /\ mainpc' = [mainpc EXCEPT ![n] = "returned"]
          /\ UNCHANGED pc
  /\ UNCHANGED <<inputVars, world_size, fn, rank, model, index, trainVars, evalVars, fwdVars>>

\* ---------------------------------------------------------------- train
\* len(train_dataloader) of a process on node n
TrainLen(n) == NumBatches(nsamples, world_size[n], cfg.batch_size)

\* next(it) on an iterator that has yielded `it` batches
IterNext(it) ==
  IF it < iter_len THEN [ok |-> TRUE, data |-> it, it |-> it + 1]
  ELSE [ok |-> FALSE, data |-> -1, it |-> it]

\* mutant: no handler, StopIteration propagates
MutNextBatch(it) == IterNext(it) @@ [restarted |-> FALSE]

\* try: data = next(tr_it)
\* except StopIteration: tr_it = iter(train_dataloader); data = next(tr_it)
NextBatch(it) ==
  LET first == IterNext(it)
  IN IF first.ok THEN first @@ [restarted |-> FALSE]
     ELSE IterNext(0) @@ [restarted |-> TRUE]

\* where a state dict comes from: not built yet, built by the constructor, or a file
NoState == <<"none", 0>>
Fresh == <<"init", 0>>

\* if cfg['train_params']['model_num'] != 0: the pretrained file is loaded
LoadsPretrained(c) == c.model_num # 0

\* what model.load_state_dict(torch.load(path)['model']) leaves in the process:
\* the model comes from the file, the optimizer is the one built at line 92
LoadedState(num, m, o) ==
  [model |-> [m EXCEPT !.src = <<"resnet", num>>], optimizer |-> o]

\* after the load every process calls dist.barrier(); without a load none does
AfterSetup(c, gpu) == IF LoadsPretrained(c) THEN "barrier" ELSE "epoch"

\* lines 84-105: build the model and a fresh optimizer, wrap the dataset; the
\* process then enters the DistributedDataParallel constructor of line 108
TrainBuild(p) ==
  /\ pc[p] = "setup" /\ fn[p] = "train"
  /\ model' = [model EXCEPT ![p] = [src |-> Fresh, steps |-> 0]]
  /\ optimizer' = [optimizer EXCEPT ![p] = [src |-> Fresh, steps |-> 0]]
  /\ pc' = [pc EXCEPT ![p] = "ddp"]
  /\ UNCHANGED <<inputVars, launchVars, index, epoch, tr_it, data, restarts,
                 nzero, nback, nstep, saves, evalVars, fwdVars>>

\* nn.parallel.DistributedDataParallel(model, device_ids=[gpu]): the constructor
\* returns once every rank of the group has entered it
DDPWrap(n) ==
  /\ ProcsOn(n) # {}
  /\ \A p \in ProcsOn(n) : pc[p] = "ddp"
  /\ pc' = [p \in Proc |-> IF NodeOf(p) = n /\ pc[p] = "ddp" THEN "wrapped" ELSE pc[p]]
  /\ UNCHANGED <<inputVars, launchVars, model, index, trainVars, evalVars, fwdVars>>

\* lines 113-120: load the pretrained file when model_num is set
TrainLoad(p) ==
  /\ pc[p] = "wrapped" /\ fn[p] = "train"
  /\ LET st == IF LoadsPretrained(cfg)
               THEN LoadedState(cfg.model_num, model[p], optimizer[p])
               ELSE [model |-> model[p], optimizer |-> optimizer[p]]
     IN /\ model' = [model EXCEPT ![p] = st.model]
        /\ optimizer' = [optimizer EXCEPT ![p] = st.optimizer]
  /\ pc' = [pc EXCEPT ![p] = AfterSetup(cfg, GpuOf(p))]
  /\ UNCHANGED <<inputVars, launchVars, index, epoch, tr_it, data, restarts,
                 nzero, nback, nstep, saves, evalVars, fwdVars>>

\* dist.barrier(): returns when every rank of the group has entered it
Barrier(n) ==
  /\ ProcsOn(n) # {}
  /\ \A p \in ProcsOn(n) : pc[p] = "barrier"
  /\ pc' = [p \in Proc |-> IF NodeOf(p) = n /\ pc[p] = "barrier" THEN "epoch" ELSE pc[p]]
  /\ UNCHANGED <<inputVars, launchVars, model, index, trainVars, evalVars, fwdVars>>

\* for epoch in range(max_num_epochs): tr_it = iter(train_dataloader);
\* for index in range(len(train_dataloader)): ...
BeginEpoch(p) ==
  /\ pc[p] = "epoch"
  /\ IF epoch[p] < cfg.max_num_epochs
     THEN /\ tr_it' = [tr_it EXCEPT ![p] = 0]
          /\ index' = [index EXCEPT ![p] = 0]
          /\ IF TrainLen(NodeOf(p)) > 0
             THEN pc' = [pc EXCEPT ![p] = "iter"] /\ UNCHANGED epoch
             ELSE epoch' = [epoch EXCEPT ![p] = epoch[p] + 1] /\ UNCHANGED pc
     ELSE /\ pc' = [pc EXCEPT ![p] = "done"]
          /\ UNCHANGED <<tr_it, index, epoch>>
  /\ UNCHANGED <<inputVars, launchVars, model, data, restarts, nzero, nback, nstep,
                 saves, optimizer, evalVars, fwdVars>>

\* lines 130-136: fetch the batch; the handler has run whenever the first next()
\* raised, also when the second one raises and StopIteration leaves train
Fetch(p) ==
  /\ pc[p] = "iter"
  /\ LET r == NextBatch(tr_it[p])
     IN /\ restarts' = [restarts EXCEPT ![p] = restarts[p] + (IF r.restarted THEN 1 ELSE 0)]
        /\ IF r.ok
           THEN /\ data' = [data EXCEPT ![p] = r.data]
                /\ tr_it' = [tr_it EXCEPT ![p] = r.it]
                /\ pc' = [pc EXCEPT ![p] = "forward"]
           ELSE /\ pc' = [pc EXCEPT ![p] = "raised"]
                /\ UNCHANGED <<data, tr_it>>
  /\ UNCHANGED <<inputVars, launchVars, model, index, epoch, nzero, nback, nstep, saves,
                 optimizer, evalVars, fwdVars>>

\* whether the i-th model_(inputs) of function f starts with the broadcast of the
\* module buffers: DistributedDataParallel does it while require_forward_param_sync
\* is set, and a forward without grad clears that flag.  train enables grad before
\* every forward (line 136); test disables it before its loop (line 222), so only
\* its first forward broadcasts
SyncsBuffers(f, i) == f = "train" \/ i = 0

\* model_(inputs) under DistributedDataParallel (line 66, called at 137 and 231)
\* when it starts with the buffer broadcast from rank 0: it proceeds once every rank
\* of the group has entered it
ForwardSync(n) ==
  /\ ProcsOn(n) # {}
  /\ \A p \in ProcsOn(n) : pc[p] = "forward" /\ SyncsBuffers(fn[p], index[p])
  /\ pc' = [p \in Proc |->
              IF NodeOf(p) = n /\ pc[p] = "forward"
              THEN (IF fn[p] = "train" THEN "zero" ELSE "collect")
              ELSE pc[p]]
  /\ UNCHANGED <<inputVars, launchVars, model, index, trainVars, evalVars, fwdVars>>

\* model_(inputs) without the buffer broadcast: the process runs it on its own
ForwardLocal(p) ==
  /\ pc[p] = "forward"
  /\ ~SyncsBuffers(fn[p], index[p])
  /\ pc' = [pc EXCEPT ![p] = "collect"]
  /\ UNCHANGED <<inputVars, launchVars, model, index, trainVars, evalVars, fwdVars>>

\* lines 137-140: the loss of the batch, then optimizer.zero_grad()
ZeroGrad(p) ==
  /\ pc[p] = "zero"
  /\ nzero' = [nzero EXCEPT ![p] = nzero[p] + 1]
  /\ pc' = [pc EXCEPT ![p] = "backward"]
  /\ UNCHANGED <<inputVars, launchVars, model, index, epoch, tr_it, data, restarts,
                 nback, nstep, saves, optimizer, evalVars, fwdVars>>

\* loss.backward() under DistributedDataParallel: the gradients are all-reduced, so
\* the call returns once every rank of the group is in the same backward pass
Backward(n) ==
  /\ ProcsOn(n) # {}
  /\ \A p \in ProcsOn(n) : pc[p] = "backward"
  /\ nback' = [p \in Proc |-> IF NodeOf(p) = n /\ pc[p] = "backward" THEN nback[p] + 1 ELSE nback[p]]
  /\ pc' = [p \in Proc |-> IF NodeOf(p) = n /\ pc[p] = "backward" THEN "step" ELSE pc[p]]
  /\ UNCHANGED <<inputVars, launchVars, model, index, epoch, tr_it, data, restarts,
                 nzero, nstep, saves, optimizer, evalVars, fwdVars>>

\* mutant: every process saves, not only gpu 0
MutSavesCheckpoint(i, every, gpu) == i % every = 0 /\ i # 0

\* if index % checkpoint == 0 and index != 0 and gpu == 0
SavesCheckpoint(i, every, gpu) == i % every = 0 /\ i # 0 /\ gpu = 0

\* state = {'model': ..., 'optimizer': ...}; torch.save(state, 'resnet_{epoch}_{index}.pth')
CheckpointFile(e, i, gpu, m, o) ==
  [name |-> <<e, i>>, by |-> gpu, model |-> m, optimizer |-> o]

\* lines 142-149: optimizer.step(), then the checkpoint, then the next index
OptStep(p) ==
  /\ pc[p] = "step"
  /\ LET m == [model[p] EXCEPT !.steps = model[p].steps + 1]
         o == [optimizer[p] EXCEPT !.steps = optimizer[p].steps + 1]
         n == NodeOf(p)
     IN /\ model' = [model EXCEPT ![p] = m]
        /\ optimizer' = [optimizer EXCEPT ![p] = o]
        /\ nstep' = [nstep EXCEPT ![p] = nstep[p] + 1]
        /\ saves' = IF SavesCheckpoint(index[p], cfg.checkpoint_every_n_steps, GpuOf(p))
                    THEN [saves EXCEPT ![n] = Append(saves[n],
                                     CheckpointFile(epoch[p], index[p], GpuOf(p), m, o))]
                    ELSE saves
        /\ IF index[p] + 1 < TrainLen(n)
           THEN /\ index' = [index EXCEPT ![p] = index[p] + 1]
                /\ pc' = [pc EXCEPT ![p] = "iter"]
                /\ UNCHANGED epoch
           ELSE /\ epoch' = [epoch EXCEPT ![p] = epoch[p] + 1]
                /\ pc' = [pc EXCEPT ![p] = "epoch"]
                /\ UNCHANGED index
  /\ UNCHANGED <<inputVars, launchVars, tr_it, data, restarts, nzero, nback,
                 evalVars, fwdVars>>

\* ---------------------------------------------------------------- forward
\* model_(inputs).reshape(targets.shape): the flat (B, 2T) output read as (B, T, 2)
Reshape(raw, B, T) ==
  [b \in 1..B |-> [t \in 1..T |-> [c \in 1..2 |-> raw[b][2 * (t - 1) + c]]]]

\* nn.MSELoss(reduction="none"): the squared error of every element
Criterion(outputs, targets, B, T) ==
  [b \in 1..B |-> [t \in 1..T |-> [c \in 1..2 |->
     (outputs[b][t][c] - targets[b][t][c]) * (outputs[b][t][c] - targets[b][t][c])]]]

\* mutant: the availabilities are not applied
MutMasked(loss, avail, B, T) == loss

\* loss_ * target_availabilities.unsqueeze(-1): one availability per step, applied
\* to both coordinates of the step
Masked(loss, avail, B, T) ==
  [b \in 1..B |-> [t \in 1..T |-> [c \in 1..2 |-> loss[b][t][c] * avail[b][t]]]]

\* loss_.mean(): the sum of all elements over their number, kept as a fraction
Mean(x, B, T) ==
  LET flat == [k \in 1..(B * T * 2) |->
                 x[((k - 1) \div (2 * T)) + 1][(((k - 1) % (2 * T)) \div 2) + 1][((k - 1) % 2) + 1]]
  IN [num |-> SumSeq(flat), den |-> B * T * 2]

\* forward(data_, model_, device_, criterion_) -> (loss_, outputs)
Forward(d) ==
  LET outputs == Reshape(d.raw, d.B, d.T)
      loss == Masked(Criterion(outputs, d.targets, d.B, d.T), d.avail, d.B, d.T)
  IN [loss |-> Mean(loss, d.B, d.T), outputs |-> outputs]

\* ---------------------------------------------------------------- test
\* the samples this process evaluates, in loader order
TestShard(p) == Shard(test_perm, world_size[NodeOf(p)], rank[p])
TestLen(p) == NumBatches(nsamples, world_size[NodeOf(p)], cfg.batch_size)

\* mutant: the timestamps are put at the front of their list
MutCollected(lists, batch) ==
  [coords |-> Append(lists.coords, [k \in 1..Len(batch) |-> ModelOutput(batch[k])]),
   timestamps |-> <<[k \in 1..Len(batch) |-> TimestampOf(batch[k])]>> \o lists.timestamps,
   track_ids |-> Append(lists.track_ids, [k \in 1..Len(batch) |-> TrackIdOf(batch[k])])]

\* lines 231-234: one batch appended to each of the three lists
Collected(lists, batch) ==
  [coords |-> Append(lists.coords, [k \in 1..Len(batch) |-> ModelOutput(batch[k])]),
   timestamps |-> Append(lists.timestamps, [k \in 1..Len(batch) |-> TimestampOf(batch[k])]),
   track_ids |-> Append(lists.track_ids, [k \in 1..Len(batch) |-> TrackIdOf(batch[k])])]

\* write_pred_csv: one row per entry of the three arrays
CsvRows(ts, ids, coords) ==
  [j \in 1..Len(ts) |-> [timestamp |-> ts[j], track_id |-> ids[j], coords |-> coords[j]]]

Hole == [timestamp |-> -1, track_id |-> -1, coords |-> <<"hole", -1>>]

\* a write of one row at row offset pos (from 1) of a file holding `rows`; rows
\* skipped over by the offset read back as a hole
WriteAt(rows, pos, row) ==
  IF pos <= Len(rows) THEN [rows EXCEPT ![pos] = row]
  ELSE rows \o [k \in 1..(pos - 1 - Len(rows)) |-> Hole] \o <<row>>

\* lines 163-191: build the model, wrap the masked dataset; the process then
\* enters the DistributedDataParallel constructor of line 194
TestBuild(p) ==
  /\ pc[p] = "setup" /\ fn[p] = "test"
  /\ model' = [model EXCEPT ![p] = [src |-> Fresh, steps |-> 0]]
  /\ pc' = [pc EXCEPT ![p] = "ddp"]
  /\ UNCHANGED <<inputVars, launchVars, index, trainVars, evalVars, fwdVars>>

\* lines 196-229: load the trained model, start the loop with empty lists
TestLoad(p) ==
  /\ pc[p] = "wrapped" /\ fn[p] = "test"
  /\ model' = [model EXCEPT ![p].src = <<"resnet_test", 0>>]
  /\ index' = [index EXCEPT ![p] = 0]
  /\ pc' = [pc EXCEPT ![p] = "eval"]
  /\ UNCHANGED <<inputVars, launchVars, trainVars, evalVars, fwdVars>>

\* for data in progress_bar: the loader hands over the next batch and forward is called
EvalNext(p) ==
  /\ pc[p] = "eval"
  /\ index[p] < TestLen(p)
  /\ pc' = [pc EXCEPT ![p] = "forward"]
  /\ UNCHANGED <<inputVars, launchVars, model, index, trainVars, evalVars, fwdVars>>

\* lines 231-234: the outputs of the batch, then the three appends
Collect(p) ==
  /\ pc[p] = "collect"
  /\ LET got == Collected([coords |-> future_coords_offsets_pd[p],
                           timestamps |-> timestamps[p],
                           track_ids |-> agent_ids[p]],
                          Batch(TestShard(p), cfg.batch_size, index[p]))
     IN /\ future_coords_offsets_pd' = [future_coords_offsets_pd EXCEPT ![p] = got.coords]
        /\ timestamps' = [timestamps EXCEPT ![p] = got.timestamps]
        /\ agent_ids' = [agent_ids EXCEPT ![p] = got.track_ids]
  /\ index' = [index EXCEPT ![p] = index[p] + 1]
  /\ pc' = [pc EXCEPT ![p] = "eval"]
  /\ UNCHANGED <<inputVars, launchVars, model, trainVars, csv_rows, wpos, pred_csv, fwdVars>>

\* lines 238-243: np.concatenate (which raises on an empty list), then
\* write_pred_csv opens ./pred.csv for writing, which empties it
OpenCsv(p) ==
  /\ pc[p] = "eval"
  /\ index[p] = TestLen(p)
  /\ IF timestamps[p] = <<>>
     THEN /\ pc' = [pc EXCEPT ![p] = "raised"]
          /\ UNCHANGED <<csv_rows, wpos, pred_csv>>
     ELSE /\ csv_rows' = [csv_rows EXCEPT ![p] =
                CsvRows(Flatten(timestamps[p]), Flatten(agent_ids[p]),
                        Flatten(future_coords_offsets_pd[p]))]
          /\ wpos' = [wpos EXCEPT ![p] = 0]
          /\ pred_csv' = [pred_csv EXCEPT ![NodeOf(p)] = [exists |-> TRUE, rows |-> <<>>]]
          /\ pc' = [pc EXCEPT ![p] = "write"]
  /\ UNCHANGED <<inputVars, launchVars, model, index, trainVars,
                 future_coords_offsets_pd, timestamps, agent_ids, fwdVars>>

\* write_pred_csv writes the next row through this process's own file handle; after
\* the last row the file is closed and test returns
WriteRow(p) ==
  /\ pc[p] = "write"
  /\ wpos[p] < Len(csv_rows[p])
  /\ LET n == NodeOf(p)
     IN pred_csv' = [pred_csv EXCEPT ![n].rows =
                       WriteAt(pred_csv[n].rows, wpos[p] + 1, csv_rows[p][wpos[p] + 1])]
  /\ wpos' = [wpos EXCEPT ![p] = wpos[p] + 1]
  /\ pc' = [pc EXCEPT ![p] = IF wpos[p] + 1 = Len(csv_rows[p]) THEN "done" ELSE "write"]
  /\ UNCHANGED <<inputVars, launchVars, model, index, trainVars,
                 future_coords_offsets_pd, timestamps, agent_ids, csv_rows, fwdVars>>

\* ---------------------------------------------------------------- the program
\* train_params.model_num: 0 (no pretrained file) or the number in a file name
ModelNums == {0, 1}

\* the configuration entries train reads (the test entries are not read in this mode)
TrainCfgs ==
  [load_the_state : {FALSE}, model_num : ModelNums, max_num_epochs : 0..MaxEpochs,
   checkpoint_every_n_steps : 1..MaxCkpt, batch_size : 1..MaxBatch, shuffle : {FALSE}]

\* the configuration entries test reads (the train entries are not read in this mode)
EvalCfgs ==
  [load_the_state : {TRUE}, model_num : {0}, max_num_epochs : {MaxEpochs},
   checkpoint_every_n_steps : {1}, batch_size : 1..MaxBatch, shuffle : BOOLEAN]

FlagSpace == [nodes : 1..MaxNodes, gpus : 1..MaxGpus, nr : 0..(MaxNodes - 1)]

FwdOff == [B |-> 0, T |-> 0, raw |-> <<>>, targets |-> <<>>, avail |-> <<>>]
NoLoss == [num |-> 0, den |-> 0]

\* every process before main spawned it, every file before it was written
ProgramStart ==
  /\ mainpc = [n \in Nodes |-> "start"]
  /\ world_size = [n \in Nodes |-> 0]
  /\ pc = [p \in Proc |-> "none"]
  /\ fn = [p \in Proc |-> "none"]
  /\ rank = [p \in Proc |-> -1]
  /\ model = [p \in Proc |-> [src |-> NoState, steps |-> 0]]
  /\ optimizer = [p \in Proc |-> [src |-> NoState, steps |-> 0]]
  /\ epoch = [p \in Proc |-> 0]
  /\ index = [p \in Proc |-> 0]
  /\ tr_it = [p \in Proc |-> 0]
  /\ data = [p \in Proc |-> -1]
  /\ restarts = [p \in Proc |-> 0]
  /\ nzero = [p \in Proc |-> 0]
  /\ nback = [p \in Proc |-> 0]
  /\ nstep = [p \in Proc |-> 0]
  /\ saves = [n \in Nodes |-> <<>>]
  /\ future_coords_offsets_pd = [p \in Proc |-> <<>>]
  /\ timestamps = [p \in Proc |-> <<>>]
  /\ agent_ids = [p \in Proc |-> <<>>]
  /\ csv_rows = [p \in Proc |-> <<>>]
  /\ wpos = [p \in Proc |-> 0]
  /\ pred_csv = [n \in Nodes |-> [exists |-> FALSE, rows |-> <<>>]]

Init ==
  /\ flags \in [nodes : 1..MaxNodes, gpus : 1..MaxGpus]
  /\ cfg \in TrainCfgs \cup EvalCfgs
  /\ nsamples \in 0..MaxSamples
  /\ LET len == NumBatches(nsamples, WorldSize(flags), cfg.batch_size)
     IN iter_len \in IF ~cfg.load_the_state /\ len > 0 THEN 1..len ELSE {0}
  /\ test_perm \in IF cfg.load_the_state /\ cfg.shuffle THEN Perms(nsamples)
                   ELSE {Identity(nsamples)}
  /\ ProgramStart
  /\ fwd_data = FwdOff /\ fwd_pc = "off" /\ fwd_loss = NoLoss
  /\ fwd_outputs = <<>> /\ fwd_prev = NoLoss

Next ==
  \/ \E n \in Nodes : Main(n)
  \/ \E n \in Nodes : InitProcessGroup(n)
  \/ \E p \in Proc : TrainBuild(p)
  \/ \E p \in Proc : TestBuild(p)
  \/ \E n \in Nodes : DDPWrap(n)
  \/ \E p \in Proc : TrainLoad(p)
  \/ \E n \in Nodes : Barrier(n)
  \/ \E p \in Proc : BeginEpoch(p)
  \/ \E p \in Proc : Fetch(p)
  \/ \E n \in Nodes : ForwardSync(n)
  \/ \E p \in Proc : ForwardLocal(p)
  \/ \E p \in Proc : ZeroGrad(p)
  \/ \E n \in Nodes : Backward(n)
  \/ \E p \in Proc : OptStep(p)
  \/ \E p \in Proc : TestLoad(p)
  \/ \E p \in Proc : EvalNext(p)
  \/ \E p \in Proc : Collect(p)
  \/ \E p \in Proc : OpenCsv(p)
  \/ \E p \in Proc : WriteRow(p)
  \/ \E n \in Nodes : Join(n)

Spec == Init /\ [][Next]_vars

\* ---------------------------------------------------------------- forward on its own
Shapes == {<<1, 1>>, <<1, 2>>, <<2, 1>>}   \* (batch, future_num_frames)
Coord == 0..MaxCoord

FwdInputs(B, T) ==
  [B : {B}, T : {T},
   raw : [1..B -> [1..(2 * T) -> Coord]],
   targets : [1..B -> [1..T -> [1..2 -> Coord]]],
   avail : [1..B -> [1..T -> {0, 1}]]]

InitForward ==
  /\ flags = [nodes |-> 1, gpus |-> 1]
  /\ cfg \in {c \in TrainCfgs : c.model_num = 0 /\ c.max_num_epochs = 0
                                /\ c.checkpoint_every_n_steps = 1 /\ c.batch_size = 1}
  /\ nsamples = 0 /\ iter_len = 0 /\ test_perm = <<>>
  /\ ProgramStart
  /\ \E sh \in Shapes : fwd_data \in FwdInputs(sh[1], sh[2])
  /\ fwd_pc = "ready" /\ fwd_loss = NoLoss /\ fwd_outputs = <<>> /\ fwd_prev = NoLoss

\* loss, outputs = forward(data, ...)
CallForward ==
  /\ fwd_pc \in {"ready", "perturbed"}
  /\ LET r == Forward(fwd_data)
     IN fwd_loss' = r.loss /\ fwd_outputs' = r.outputs
  /\ fwd_pc' = IF fwd_pc = "ready" THEN "returned" ELSE "recomputed"
  /\ UNCHANGED <<fwd_data, fwd_prev>>
  /\ UNCHANGED <<inputVars, launchVars, pc, model, index, trainVars, evalVars>>

\* the same batch with the network output of one unavailable step changed
PerturbOutput ==
  /\ fwd_pc = "returned"
  /\ \E b \in 1..fwd_data.B, t \in 1..fwd_data.T, c \in 1..2, v \in Coord :
       /\ fwd_data.avail[b][t] = 0
       /\ fwd_data.raw[b][2 * (t - 1) + c] # v
       /\ fwd_data' = [fwd_data EXCEPT !.raw[b][2 * (t - 1) + c] = v]
  /\ fwd_prev' = fwd_loss
  /\ fwd_pc' = "perturbed"
  /\ UNCHANGED <<fwd_loss, fwd_outputs>>
  /\ UNCHANGED <<inputVars, launchVars, pc, model, index, trainVars, evalVars>>

\* the same batch with the target of one unavailable step changed
PerturbTarget ==
  /\ fwd_pc = "returned"
  /\ \E b \in 1..fwd_data.B, t \in 1..fwd_data.T, c \in 1..2, v \in Coord :
       /\ fwd_data.avail[b][t] = 0
       /\ fwd_data.targets[b][t][c] # v
       /\ fwd_data' = [fwd_data EXCEPT !.targets[b][t][c] = v]
  /\ fwd_prev' = fwd_loss
  /\ fwd_pc' = "perturbed"
  /\ UNCHANGED <<fwd_loss, fwd_outputs>>
  /\ UNCHANGED <<inputVars, launchVars, pc, model, index, trainVars, evalVars>>

NextForward == CallForward \/ PerturbOutput \/ PerturbTarget

SpecForward == InitForward /\ [][NextForward]_vars

\* ================================================================ properties
Spawned == {p \in Proc : pc[p] # "none"}
\* main of node n has called mp.spawn
Launched(n) == mainpc[n] # "start"
AllSpawned == \A n \in 1..flags.nodes : Launched(n)
RanksOn(n) == {rank[p] : p \in ProcsOn(n)}
RowOf(s) == [timestamp |-> TimestampOf(s), track_id |-> TrackIdOf(s), coords |-> ModelOutput(s)]
RowCount(rows, row) == Cardinality({j \in 1..Len(rows) : rows[j] = row})

\* C1: once every process of an evaluation run has returned from test, ./pred.csv
\* holds every sample of the masked test dataset in exactly one row.
C1_OneRowPerSample ==
  \A n \in Nodes :
    (cfg.load_the_state /\ Launched(n) /\ \A p \in ProcsOn(n) : pc[p] = "done")
    => /\ pred_csv[n].exists
       /\ Len(pred_csv[n].rows) = nsamples
       /\ \A s \in 0..(nsamples - 1) : RowCount(pred_csv[n].rows, RowOf(s)) = 1

\* C4 as stated: world_size = gpus * nodes, and no flag changes how many processes
\* are spawned or which ranks they get.
C4_FlagsOnlyWorldSize ==
  \A n \in Nodes : Launched(n) =>
    /\ world_size[n] = flags.gpus * flags.nodes
    /\ \A f \in FlagSpace :
         /\ SpawnCount(f) = Cardinality(ProcsOn(n))
         /\ SpawnRanks(f) = RanksOn(n)

\* C4 amended: world_size = gpus * nodes; --nodes and --nr change neither the number
\* of spawned processes nor their ranks; --gpus is the number of processes spawned
\* on the node, and their ranks are 0..gpus-1.
C4_FlagsAmended ==
  \A n \in Nodes : Launched(n) =>
    /\ world_size[n] = flags.gpus * flags.nodes
    /\ Cardinality(ProcsOn(n)) = flags.gpus
    /\ RanksOn(n) = 0..(flags.gpus - 1)
    /\ \A f \in FlagSpace : f.gpus = flags.gpus =>
         /\ SpawnCount(f) = Cardinality(ProcsOn(n))
         /\ SpawnRanks(f) = RanksOn(n)

C4_Witness ==
  /\ flags.nodes > 1 /\ flags.gpus > 1
  /\ \E n \in Nodes : n > 1 /\ Launched(n)

\* C5: every spawned process runs train when load_the_state is false and test when it
\* is true; an evaluation run takes no optimizer step and saves no checkpoint, a
\* training run never writes ./pred.csv.
C5_ExactlyOneMode ==
  /\ cfg.load_the_state =>
       /\ \A p \in Spawned : fn[p] = "test"
       /\ \A p \in Proc : nstep[p] = 0 /\ nzero[p] = 0 /\ optimizer[p].steps = 0
       /\ \A n \in Nodes : saves[n] = <<>>
  /\ ~cfg.load_the_state =>
       /\ \A p \in Spawned : fn[p] = "train"
       /\ \A n \in Nodes : ~pred_csv[n].exists /\ pred_csv[n].rows = <<>>
       /\ \A p \in Proc : csv_rows[p] = <<>> /\ timestamps[p] = <<>>

C5_Witness ==
  /\ cfg.load_the_state
  /\ \E p \in Proc : pc[p] = "done" /\ pred_csv[NodeOf(p)].exists

\* C6: when main has run on every node, the ranks given to init_process_group are
\* pairwise distinct and are exactly 0..world_size-1, so the rendezvous can complete.
C6_RanksCoverWorld ==
  AllSpawned =>
    /\ \A p, q \in Spawned : p # q => rank[p] # rank[q]
    /\ {rank[p] : p \in Spawned} = 0..(WorldSize(flags) - 1)
    /\ \A n \in 1..flags.nodes :
         (\A p \in ProcsOn(n) : pc[p] = "init") => GroupComplete(n)

TrainProcs == {p \in Spawned : fn[p] = "train"}
TestProcs == {p \in Spawned : fn[p] = "test"}
SaveCount(n, e, i) == Cardinality({k \in 1..Len(saves[n]) : saves[n][k].name = <<e, i>>})
\* optimizer steps a process has taken once it finished iteration i of epoch e
StepsAfter(n, e, i) == e * TrainLen(n) + i + 1

\* C2: for every epoch and every index i with 0 < i < len(train_dataloader) that is a
\* multiple of checkpoint_every_n_steps, exactly one checkpoint named (epoch, i) is
\* written once the rank-0 process has taken the optimizer step of that iteration; it
\* holds the model and the optimizer state after that step, is written by the process
\* of rank 0, and no other checkpoint is ever written.
C2_Checkpoints ==
  \A n \in Nodes : Launched(n) =>
    /\ \A k \in 1..Len(saves[n]) :
         LET f == saves[n][k]
         IN /\ f.by = 0 /\ rank[<<n, f.by>>] = 0
            /\ f.model.src # NoState /\ f.optimizer.src # NoState
            /\ f.model.steps = StepsAfter(n, f.name[1], f.name[2])
            /\ f.optimizer.steps = StepsAfter(n, f.name[1], f.name[2])
    /\ \A e \in 0..cfg.max_num_epochs, i \in 0..TrainLen(n) :
         SaveCount(n, e, i) =
           IF /\ e < cfg.max_num_epochs /\ 0 < i /\ i < TrainLen(n)
              /\ i % cfg.checkpoint_every_n_steps = 0
              /\ nstep[<<n, 0>>] >= StepsAfter(n, e, i)
           THEN 1 ELSE 0
    /\ \A k \in 1..Len(saves[n]) :
         saves[n][k].name[1] \in 0..cfg.max_num_epochs /\ saves[n][k].name[2] \in 0..TrainLen(n)

C2_Witness ==
  /\ flags.gpus > 1
  /\ \E n \in Nodes : \E k \in 1..Len(saves[n]) :
       saves[n][k].name[1] > 0 /\ \A p \in ProcsOn(n) : pc[p] = "done"

\* iterations of the loop body a process has entered
Entered(p) ==
  epoch[p] * TrainLen(NodeOf(p))
  + (IF pc[p] \in {"iter", "forward", "zero"} THEN index[p]
     ELSE IF pc[p] \in {"backward", "step"} THEN index[p] + 1 ELSE 0)

\* C3: every loop iteration obtains a batch and performs a training step; when the
\* iterator is exhausted the batch is the first one of a fresh iterator, and
\* StopIteration never leaves the loop, so a finished run has done
\* max_num_epochs * len(train_dataloader) steps.
C3_IteratorRestart ==
  \A p \in TrainProcs :
    /\ pc[p] # "raised"
    /\ nzero[p] = Entered(p)
    /\ pc[p] \in {"forward", "zero", "backward", "step"} =>
         /\ data[p] \in 0..(iter_len - 1)
         /\ data[p] = index[p] % iter_len
         /\ index[p] >= iter_len => restarts[p] > 0
    /\ pc[p] = "done" =>
         /\ epoch[p] = cfg.max_num_epochs
         /\ nstep[p] = cfg.max_num_epochs * TrainLen(NodeOf(p))

C3_Witness ==
  \E p \in TrainProcs :
    /\ pc[p] = "done" /\ restarts[p] > 1 /\ nstep[p] > 2

\* C7: the loss is the mean over all batch x step x coordinate elements of
\* availability * (output - target)^2; changing an output or a target of an
\* unavailable step leaves it unchanged; it is 0 when no step is available.
RECURSIVE SumAvailable(_, _)
SumAvailable(d, elems) ==
  IF elems = {} THEN 0
  ELSE LET e == CHOOSE x \in elems : TRUE
           diff == d.raw[e[1]][2 * (e[2] - 1) + e[3]] - d.targets[e[1]][e[2]][e[3]]
       IN (IF d.avail[e[1]][e[2]] = 1 THEN diff * diff ELSE 0)
          + SumAvailable(d, elems \ {e})

C7_MaskedMSE ==
  fwd_pc \in {"returned", "recomputed"} =>
    /\ fwd_loss.den = fwd_data.B * fwd_data.T * 2
    /\ fwd_loss.num = SumAvailable(fwd_data, (1..fwd_data.B) \X (1..fwd_data.T) \X (1..2))
    /\ fwd_pc = "recomputed" => fwd_loss = fwd_prev
    /\ (\A b \in 1..fwd_data.B, t \in 1..fwd_data.T : fwd_data.avail[b][t] = 0)
         => fwd_loss.num = 0
    /\ \A b \in 1..fwd_data.B, t \in 1..fwd_data.T, c \in 1..2 :
         fwd_outputs[b][t][c] = fwd_data.raw[b][2 * (t - 1) + c]

C7_Witness ==
  /\ fwd_pc = "recomputed" /\ fwd_loss.num > 0 /\ fwd_data.B * fwd_data.T > 1
  /\ \E b \in 1..fwd_data.B, t \in 1..fwd_data.T :
       fwd_data.avail[b][t] = 0 /\ fwd_data.raw[b][2 * t] # fwd_data.targets[b][t][2]

\* C8: the three collected lists always have one entry per processed batch, entry k
\* of each list comes from batch k, and row j handed to write_pred_csv carries the
\* coordinates, timestamp and track id of the j-th sample the loader produced.
C8_ListsAligned ==
  \A p \in TestProcs : pc[p] \in {"eval", "forward", "collect", "write", "done"} =>
    /\ Len(future_coords_offsets_pd[p]) = index[p]
    /\ Len(timestamps[p]) = index[p]
    /\ Len(agent_ids[p]) = index[p]
    /\ \A k \in 1..index[p] :
         LET b == Batch(TestShard(p), cfg.batch_size, k - 1)
         IN /\ Len(future_coords_offsets_pd[p][k]) = Len(b)
            /\ Len(timestamps[p][k]) = Len(b)
            /\ Len(agent_ids[p][k]) = Len(b)
            /\ \A j \in 1..Len(b) :
                 /\ future_coords_offsets_pd[p][k][j] = ModelOutput(b[j])
                 /\ timestamps[p][k][j] = TimestampOf(b[j])
                 /\ agent_ids[p][k][j] = TrackIdOf(b[j])
    /\ pc[p] \in {"write", "done"} =>
         /\ Len(csv_rows[p]) = Len(TestShard(p))
         /\ \A j \in 1..Len(csv_rows[p]) : csv_rows[p][j] = RowOf(TestShard(p)[j])

C8_Witness ==
  \E p \in TestProcs :
    /\ pc[p] = "write" /\ Len(timestamps[p]) > 1 /\ Len(csv_rows[p]) > 2
    /\ test_perm # Identity(nsamples)

PastBarrier(p) == pc[p] \in {"epoch", "iter", "forward", "zero", "backward", "step", "done"}
LoadedFrom(p, num) == model[p].src = <<"resnet", num>>

\* what holds of the pretrained load in every state
LoadOrder ==
  \A p \in TrainProcs :
    /\ optimizer[p].src \in {NoState, Fresh}
    /\ cfg.model_num = 0 => model[p].src \in {NoState, Fresh} /\ pc[p] # "barrier"
    /\ cfg.model_num # 0 =>
         /\ pc[p] = "barrier" \/ PastBarrier(p) => LoadedFrom(p, cfg.model_num)
         /\ PastBarrier(p) \/ nzero[p] > 0 =>
              \A q \in ProcsOn(NodeOf(p)) : LoadedFrom(q, cfg.model_num)

\* C9: with model_num set, every process loads the model from resnet_<model_num>.pth
\* and enters the barrier; no process is in the training loop before every process of
\* its group has loaded; and every process gets past the barrier: a training run with
\* model_num set does not stop while a spawned process has not passed it (runs are
\* finite, so a process that is never released shows as a run that has stopped).
\* With model_num 0 no file is loaded and no barrier is entered.  The optimizer state
\* never comes from a file.
C9_LoadThenBarrier ==
  /\ LoadOrder
  /\ (~cfg.load_the_state /\ cfg.model_num # 0) =>
       \/ ENABLED Next
       \/ AllSpawned /\ \A p \in Spawned : PastBarrier(p)

\* the same on one node, where the process group forms
C9_SingleNode == flags.nodes = 1 => C9_LoadThenBarrier

AllReturned ==
  /\ AllSpawned
  /\ \A p \in Spawned : pc[p] = "done"

\* C10: every iteration is one zero_grad, then one backward, then one optimizer step;
\* a process that returns has done max_num_epochs * len(train_dataloader) iterations;
\* no process waits in a backward pass for a peer that has returned; and a training
\* run does not stop before every process has returned from train.
C10_Terminates ==
  ~cfg.load_the_state =>
    /\ \A p \in TrainProcs :
         /\ nstep[p] <= nback[p] /\ nback[p] <= nzero[p] /\ nzero[p] <= nstep[p] + 1
         /\ pc[p] = "done" => nstep[p] = cfg.max_num_epochs * TrainLen(NodeOf(p))
         /\ \A q \in ProcsOn(NodeOf(p)) :
              ~(pc[p] \in {"forward", "backward"} /\ pc[q] = "done")
    /\ AllReturned \/ ENABLED Next

\* the same on one node, where the process group forms
C10_SingleNode == flags.nodes = 1 => C10_Terminates

====
